---- MODULE Spec2Model ----
(***************************************************************************)
(* A model of src/pathtrace.cu: one pathtrace() call per iteration          *)
(* (generateRayFromCamera, the bounce loop of intersect / sort / shade /    *)
(* partition, finalGather), and the two intersectors.                       *)
(*                                                                          *)
(* Abstractions.  A ray is an identifier in Rays; the scene says, for every *)
(* ray and every primitive, the parametric distance the primitive's         *)
(* intersection test returns (primT) and whether the ray meets a tree       *)
(* node's bounds (boundsHit).  A colour is a triple of naturals multiplied  *)
(* componentwise.  A random engine is the triple of integers it was seeded  *)
(* with.  Arrays are functions over 0..n-1, as in the source.               *)
(***************************************************************************)
EXTENDS Integers, Sequences, FiniteSets, TLC

\* ------------------------------------------------------------------ bounds

PixelCount == 2
MaxTraceDepth == 2
MaxIter == 2

\* the bounce counter of a loop that never meets its exit test is cut here
DepthCap == MaxTraceDepth + 2

FLT_MAX == 1000

Pixels == 0 .. (PixelCount - 1)
Rays == 0 .. (PixelCount - 1)
NumRays == PixelCount

\* ------------------------------------------------------------------ colours

Vec3(r, g, b) == <<r, g, b>>
Mul(a, b) == <<a[1] * b[1], a[2] * b[2], a[3] * b[3]>>
Scale(a, k) == <<a[1] * k, a[2] * k, a[3] * k>>
Add(a, b) == <<a[1] + b[1], a[2] + b[2], a[3] + b[3]>>
Sub(a, b) == <<a[1] - b[1], a[2] - b[2], a[3] - b[3]>>
White == Vec3(1, 1, 1)
Black == Vec3(0, 0, 0)
Magenta == Vec3(1, 0, 1)

\* ------------------------------------------------------------------ scene

CUBE == "CUBE"
SPHERE == "SPHERE"
TRIANGLE == "TRIANGLE"
DIAMOND == "DIAMOND"
MANDELBULB == "MANDELBULB"

\* scene->materials: a light (white, emittance 5), a second light, a plain
\* diffuse surface, a material whose texture failed to load (textureOffset
\* -2), a textured surface (textureOffset 0).
SceneMaterials ==
    (0 :> [color |-> White, emittance |-> 5, textureOffset |-> -1]) @@
    (1 :> [color |-> Vec3(1, 2, 1), emittance |-> 3, textureOffset |-> -1]) @@
    (2 :> [color |-> Vec3(2, 1, 1), emittance |-> 0, textureOffset |-> -1]) @@
    (3 :> [color |-> Vec3(1, 1, 2), emittance |-> 0, textureOffset |-> -2]) @@
    (4 :> [color |-> Vec3(1, 1, 1), emittance |-> 0, textureOffset |-> 0])

\* scene->sortedGeoms of the rendering runs: one primitive per material
RenderGeoms ==
    (0 :> [type |-> SPHERE, materialid |-> 0]) @@
    (1 :> [type |-> CUBE, materialid |-> 1]) @@
    (2 :> [type |-> TRIANGLE, materialid |-> 2]) @@
    (3 :> [type |-> SPHERE, materialid |-> 3]) @@
    (4 :> [type |-> CUBE, materialid |-> 4])

Interior(second) ==
    [nPrimitives |-> 0, primitivesOffset |-> 0, secondChildOffset |-> second]
Leaf(offset, n) ==
    [nPrimitives |-> n, primitivesOffset |-> offset, secondChildOffset |-> 0]

\* scene->flatKDTree of the rendering runs
RenderTree ==
    (0 :> Interior(4)) @@ (1 :> Interior(3)) @@ (2 :> Leaf(0, 2)) @@
    (3 :> Leaf(2, 1)) @@ (4 :> Leaf(3, 2))

\* ------------------------------------------------------------------ state

VARIABLES
    scene,              \* hst_scene and its device mirror (read-only while tracing)
    build,              \* the compile-time switches MATSORT and STREAMCOMP
    iter,               \* the iteration index pathtrace is called with
    pc,                 \* where the host is inside pathtrace
    depth,
    num_paths,
    iterationComplete,
    dev_paths,
    dev_intersections,
    dev_image,
    gathered,           \* the finalGather threads that have run
    writes,             \* per image slot, the finalGather writes of this call
    imageBefore,        \* dev_image when the current call started
    prev,               \* dev_paths and num_paths before the last kernel that touched them
    last,               \* the last stage that ran
    rngUsed,            \* per pixel, the engine the last shadeMaterials seeded for its path
    ref,                \* the same call as made by a build with other switches
    kd,                 \* one thread of computeIntersectionsKD, inside its while loop
    bf,                 \* the record one thread of computeIntersections wrote
    isectOf             \* per array position, the path and bounce its intersection record was written for

vars == <<scene, build, iter, pc, depth, num_paths, iterationComplete, dev_paths,
          dev_intersections, dev_image, gathered, writes, imageBefore, prev, last,
          rngUsed, ref, kd, bf, isectOf>>

\* no engine seeded
NoEngine == [iter |-> -1, index |-> -1, depth |-> -1]

\* no intersection record written: the position holds the bytes of the memset
NoRecord == [pixelIndex |-> -1, iter |-> -1, depth |-> -1]

\* ------------------------------------------------------------------ random engine

\* makeSeededRandomEngine(iter, index, depth): the engine is determined by
\* utilhash((1 << 31) | (depth << 22) | iter) ^ utilhash(index), kept here as
\* the three integers that go into the hashes.
makeSeededRandomEngine(it, index, d) ==
    [iter |-> it, index |-> index, depth |-> d]

\* a draw of u01(rng), as a class in 0 .. NumRays-1
u01(rng) == (rng.iter + rng.index + rng.depth) % NumRays

\* ------------------------------------------------------------------ intersectors

ZeroIntersection == [t |-> 0, materialId |-> 0, surfaceNormal |-> 0, uvs |-> 0]

\* the type-dispatched intersection test of the accelerated intersector:
\* no branch for DIAMOND or MANDELBULB, t keeps the value it had
PrimitiveTestKD(sc, ray, i, t) ==
    IF sc.geoms[i].type \in {CUBE, SPHERE, TRIANGLE}
    THEN sc.primT[ray][i]
    ELSE t

\* the type-dispatched intersection test of the brute-force intersector
PrimitiveTest(sc, ray, i, t) ==
    IF sc.geoms[i].type \in {CUBE, SPHERE, DIAMOND, MANDELBULB, TRIANGLE}
    THEN sc.primT[ray][i]
    ELSE t

\* if (t > 0.0f && t_min > t) { t_min = t; hit_geom_index = ...; }
KeepNearest(k, t, index) ==
    IF t > 0 /\ k.t_min > t
    THEN [k EXCEPT !.t = t, !.t_min = t, !.hit_geom_index = index]
    ELSE [k EXCEPT !.t = t]

\* for (int i = 0; i < node.nPrimitives; ++i) over one leaf
RECURSIVE LeafScan(_, _, _, _, _)
LeafScan(sc, ray, node, i, k) ==
    IF i >= node.nPrimitives
    THEN k
    ELSE LET index == node.primitivesOffset + i
         IN LeafScan(sc, ray, node, i + 1,
                     KeepNearest(k, PrimitiveTestKD(sc, ray, index, k.t), index))

\* if (toVisitOffset == 0) break; currentNodeIndex = nodesToVisit[--toVisitOffset];
PopOrBreak(k) ==
    IF k.toVisitOffset = 0
    THEN [k EXCEPT !.done = TRUE]
    ELSE [k EXCEPT !.currentNodeIndex = k.nodesToVisit[k.toVisitOffset],
                   !.nodesToVisit = SubSeq(@, 1, k.toVisitOffset - 1),
                   !.toVisitOffset = @ - 1]

\* nodesToVisit[toVisitOffset++] = node.secondChildOffset; currentNodeIndex++
PushAndDescend(k, node) ==
    [k EXCEPT !.nodesToVisit = Append(@, node.secondChildOffset),
              !.toVisitOffset = @ + 1,
              !.currentNodeIndex = @ + 1]

\* the locals of one thread of computeIntersectionsKD before its while loop;
\* t is declared without a value: t0 is whatever the register holds
KDStart(t0) ==
    [t |-> t0, t_min |-> FLT_MAX, hit_geom_index |-> -1,
     toVisitOffset |-> 0, currentNodeIndex |-> 0, nodesToVisit |-> <<>>,
     done |-> FALSE]

\* one turn of while (true) in computeIntersectionsKD.  nodesToVisit holds
\* the entries below toVisitOffset (entry j of the array is element j+1).
KDVisit(sc, ray, k, node, boundsT) ==
    IF boundsT
    THEN IF node.nPrimitives > 0
         THEN PopOrBreak(LeafScan(sc, ray, node, 0, k))
         ELSE PushAndDescend(k, node)
    ELSE PopOrBreak(k)

\* LinearKDNode node = kdtree[currentNodeIndex]; boundsT = boundsIntersectionTest(...)
KDStep(sc, ray, k) ==
    KDVisit(sc, ray, k, sc.kdtree[k.currentNodeIndex],
            sc.boundsHit[ray][k.currentNodeIndex])

RECURSIVE KDTraverse(_, _, _)
KDTraverse(sc, ray, k) ==
    IF k.done THEN k ELSE KDTraverse(sc, ray, KDStep(sc, ray, k))

\* for (int i = 0; i < geoms_size; i++) in computeIntersections
RECURSIVE LinearScan(_, _, _, _)
LinearScan(sc, ray, i, k) ==
    IF i >= sc.geoms_size
    THEN k
    ELSE LinearScan(sc, ray, i + 1,
                    KeepNearest(k, PrimitiveTest(sc, ray, i, k.t), i))

\* what both kernels write to intersections[path_index] after the search;
\* uvs and surfaceNormal are classes named by the primitive that was hit
WriteIntersection(sc, old, k) ==
    IF k.hit_geom_index = -1
    THEN [old EXCEPT !.t = -1]
    ELSE [t |-> k.t_min,
          materialId |-> sc.geoms[k.hit_geom_index].materialid,
          surfaceNormal |-> k.hit_geom_index,
          uvs |-> k.hit_geom_index]

computeIntersectionsKD(sc, ray, old, t0) ==
    WriteIntersection(sc, old, KDTraverse(sc, ray, KDStart(t0)))

computeIntersections(sc, ray, old, t0) ==
    WriteIntersection(sc, old, LinearScan(sc, ray, 0, KDStart(t0)))

\* ------------------------------------------------------------------ ray generation

\* generateRayFromCamera, one thread: the jitter stays inside the pixel, so
\* the camera ray of pixel index is the ray class index
generateRayFromCamera(index, it, traceDepth) ==
    [ray |-> index,
     color |-> White,
     pixelIndex |-> index,
     remainingBounces |-> traceDepth]

\* ------------------------------------------------------------------ shader

\* palette(f_uv.x * f_uv.y, a, b, c, d): the procedural colour of a uv class
palette(uvs) == Vec3(1, 2, 1 + (uvs % 2))

\* scatterRay(pathSegment, isectPt, normal, material, rng): attenuates the
\* throughput by the albedo and replaces the ray by one sampled with rng
scatterRay(path, intersection, material, rng) ==
    [path EXCEPT !.color = Mul(@, material.color),
                 !.ray = (path.ray + 1 + u01(rng)) % NumRays]

\* the index shadeMaterials seeds the engine with: the thread's array index
ShaderSeedIndex(index, path) == index

\* the light branch without the emittance factor
ShadeLightNoEmittance(path, material) ==
    [path EXCEPT !.color = Mul(@, material.color), !.remainingBounces = 0]

\* if (material.emittance > 0.0f) { ... }
ShadeLight(path, material) ==
    [path EXCEPT !.color = Mul(@, Scale(material.color, material.emittance)),
                 !.remainingBounces = 0]

\* if (material.textureOffset == -2) { ... }
ShadeTextureError(path, material) ==
    IF material.textureOffset = -2
    THEN [path EXCEPT !.color = Magenta, !.remainingBounces = 0]
    ELSE path

\* if (material.textureOffset > -1) { ... } with PROCTEXT
ShadeTexture(path, material, intersection) ==
    IF material.textureOffset > -1
    THEN [path EXCEPT !.color = Mul(@, palette(intersection.uvs))]
    ELSE path

\* the else branch of the emittance test: the two texture ifs, then
\* scatterRay and remainingBounces--, both outside the ifs
ShadeSurface(path, material, intersection, rng) ==
    LET p1 == ShadeTextureError(path, material)
        p2 == ShadeTexture(p1, material, intersection)
        p3 == scatterRay(p2, intersection, material, rng)
    IN [p3 EXCEPT !.remainingBounces = @ - 1]

\* } else { color = 0; remainingBounces = 0; }
ShadeMiss(path) ==
    [path EXCEPT !.color = Black, !.remainingBounces = 0]

\* one thread of shadeMaterials with index < num_paths
shadeMaterials(sc, it, index, intersection, path, d) ==
    IF path.remainingBounces = 0
    THEN path
    ELSE IF intersection.t > 0
         THEN LET rng == makeSeededRandomEngine(it, ShaderSeedIndex(index, path), d)
                  material == sc.materials[intersection.materialId]
              IN IF material.emittance > 0
                 THEN ShadeLight(path, material)
                 ELSE ShadeSurface(path, material, intersection, rng)
         ELSE ShadeMiss(path)

\* the engine that thread seeds, NoEngine when it returns before seeding one
ShaderEngine(it, index, intersection, path, d) ==
    IF path.remainingBounces # 0 /\ intersection.t > 0
    THEN makeSeededRandomEngine(it, ShaderSeedIndex(index, path), d)
    ELSE NoEngine

\* ------------------------------------------------------------------ thrust

\* struct rayDeath
rayDeath(pathSegment) == pathSegment.remainingBounces > 0

\* struct materialCmp
materialCmp(a, b) == a.materialId < b.materialId

Perms(n) ==
    {f \in [0 .. (n - 1) -> 0 .. (n - 1)] :
        \A i, j \in 0 .. (n - 1) : i # j => f[i] # f[j]}

\* array a with its first n elements rearranged: element i comes from f[i]
Permute(a, n, f) ==
    [i \in DOMAIN a |-> IF i < n THEN a[f[i]] ELSE a[i]]

\* thrust::partition(first, first + n, pred) leaves the elements that satisfy
\* pred before the others, in an order it does not promise
PartitionResults(a, n) ==
    {f \in Perms(n) :
        \A i, j \in 0 .. (n - 1) :
            (rayDeath(a[f[j]]) /\ ~rayDeath(a[f[i]])) => j < i}

\* the returned iterator of thrust::partition, as an element count
PartitionPoint(a, n) ==
    Cardinality({i \in 0 .. (n - 1) : rayDeath(a[i])})

\* thrust::sort_by_key(keys, keys + n, values, comp): keys end up ordered by
\* comp, values follow their keys, equal keys in an order it does not promise
SortResults(keys, n) ==
    {f \in Perms(n) :
        \A i, j \in 0 .. (n - 1) :
            i < j => ~materialCmp(keys[f[j]], keys[f[i]])}

\* ------------------------------------------------------------------ scenes

\* the primitives below node n of a flattened tree
RECURSIVE SubtreePrims(_, _)
SubtreePrims(tree, n) ==
    IF tree[n].nPrimitives > 0
    THEN tree[n].primitivesOffset .. (tree[n].primitivesOffset + tree[n].nPrimitives - 1)
    ELSE SubtreePrims(tree, n + 1) \cup SubtreePrims(tree, tree[n].secondChildOffset)

\* a ray meets the bounds of a node exactly when it meets a primitive below it
TightBounds(tree, primT) ==
    [r \in DOMAIN primT |->
        [n \in DOMAIN tree |-> \E g \in SubtreePrims(tree, n) : primT[r][g] > 0]]

\* the scenes of the rendering runs: every ray class meets nothing (-1) or
\* exactly one primitive, at t = 1
RenderScene(traceDepth, h) ==
    LET primT == [r \in Rays |->
                     [g \in DOMAIN RenderGeoms |-> IF h[r] = g THEN 1 ELSE -1]]
    IN [traceDepth |-> traceDepth,
        geoms |-> RenderGeoms,
        geoms_size |-> Cardinality(DOMAIN RenderGeoms),
        kdtree |-> RenderTree,
        materials |-> SceneMaterials,
        primT |-> primT,
        boundsHit |-> TightBounds(RenderTree, primT)]

RenderScenes ==
    {RenderScene(d, h) : d \in 0 .. MaxTraceDepth,
                         h \in [Rays -> (DOMAIN RenderGeoms) \cup {-1}]}

Builds == [MATSORT : BOOLEAN, STREAMCOMP : BOOLEAN]

\* the values an uninitialised float t may hold
UninitT == {-1, 1, 2}

ZeroPath == [ray |-> 0, color |-> Black, pixelIndex |-> 0, remainingBounces |-> 0]

Snapshot(paths, n) == [paths |-> paths, num_paths |-> n]

\* the position of pixel p's path in an array of paths
PositionOf(paths, p) == CHOOSE i \in DOMAIN paths : paths[i].pixelIndex = p

\* ------------------------------------------------------------------ pathtrace

\* pathtraceInit: image and intersections zeroed, paths allocated
Init ==
    /\ scene \in RenderScenes
    /\ build \in Builds
    /\ iter = 1
    /\ pc = "idle"
    /\ depth = 0
    /\ num_paths = 0
    /\ iterationComplete = FALSE
    /\ dev_paths = [i \in Pixels |-> ZeroPath]
    /\ dev_intersections = [i \in Pixels |-> ZeroIntersection]
    /\ dev_image = [p \in Pixels |-> Black]
    /\ gathered = {}
    /\ writes = [p \in Pixels |-> 0]
    /\ imageBefore = [p \in Pixels |-> Black]
    /\ prev = Snapshot([i \in Pixels |-> ZeroPath], 0)
    /\ last = "pathtraceInit"
    /\ rngUsed = [p \in Pixels |-> NoEngine]
    /\ ref = <<>>
    /\ kd = KDStart(0)
    /\ bf = ZeroIntersection
    /\ isectOf = [i \in Pixels |-> NoRecord]

\* pathtrace up to the while loop: the generateRayFromCamera kernel, depth = 0,
\* num_paths = dev_path_end - dev_paths, iterationComplete = false
GenerateRays ==
    /\ pc = "idle"
    /\ dev_paths' = [i \in Pixels |-> generateRayFromCamera(i, iter, scene.traceDepth)]
    /\ depth' = 0
    /\ num_paths' = PixelCount
    /\ iterationComplete' = FALSE
    /\ imageBefore' = dev_image
    /\ gathered' = {}
    /\ writes' = [p \in Pixels |-> 0]
    /\ prev' = Snapshot(dev_paths', PixelCount)
    /\ rngUsed' = [p \in Pixels |-> NoEngine]
    /\ last' = "generate"
    /\ pc' = "intersect"
    /\ UNCHANGED <<scene, build, iter, dev_intersections, dev_image, ref, kd, bf, isectOf>>

\* cudaMemset(dev_intersections, 0, ...) and the computeIntersectionsKD
\* kernel (ACCELSTRUCT is 1) over the first num_paths paths
Intersect ==
    /\ pc = "intersect"
    /\ depth < DepthCap
    /\ \E t0 \in UninitT :
        dev_intersections' =
            [i \in Pixels |->
                IF i < num_paths
                THEN computeIntersectionsKD(scene, dev_paths[i].ray, ZeroIntersection, t0)
                ELSE ZeroIntersection]
    /\ isectOf' =
        [i \in Pixels |->
            IF i < num_paths
            THEN [pixelIndex |-> dev_paths[i].pixelIndex, iter |-> iter, depth |-> depth]
            ELSE NoRecord]
    /\ last' = "intersect"
    /\ pc' = IF build.MATSORT THEN "sort" ELSE "shade"
    /\ UNCHANGED <<scene, build, iter, depth, num_paths, iterationComplete, dev_paths,
                   dev_image, gathered, writes, imageBefore, prev, rngUsed, ref, kd, bf>>

\* a sort of the keys that leaves the values where they were
SortValuesUnmoved(values, n, f) == values

\* sort_by_key moves the values (the paths) as it moves their keys
SortValues(values, n, f) == Permute(values, n, f)

\* #if MATSORT: thrust::sort_by_key(dv_intersections, dv_intersections + num_paths,
\* dv_paths, materialCmp())
SortByMaterial ==
    /\ pc = "sort"
    /\ \E f \in SortResults(dev_intersections, num_paths) :
        /\ dev_intersections' = Permute(dev_intersections, num_paths, f)
        /\ isectOf' = Permute(isectOf, num_paths, f)
        /\ dev_paths' = SortValues(dev_paths, num_paths, f)
    /\ prev' = Snapshot(dev_paths, num_paths)
    /\ last' = "sort"
    /\ pc' = "shade"
    /\ UNCHANGED <<scene, build, iter, depth, num_paths, iterationComplete, dev_image,
                   gathered, writes, imageBefore, rngUsed, ref, kd, bf>>

\* the shadeMaterials kernel over the first num_paths paths, then depth++
Shade ==
    /\ pc = "shade"
    /\ dev_paths' =
        [i \in Pixels |->
            IF i < num_paths
            THEN shadeMaterials(scene, iter, i, dev_intersections[i], dev_paths[i], depth)
            ELSE dev_paths[i]]
    /\ rngUsed' =
        [p \in Pixels |->
            LET i == PositionOf(dev_paths, p)
            IN IF i < num_paths
               THEN ShaderEngine(iter, i, dev_intersections[i], dev_paths[i], depth)
               ELSE NoEngine]
    /\ depth' = depth + 1
    /\ prev' = Snapshot(dev_paths, num_paths)
    /\ last' = "shade"
    /\ pc' = "endbounce"
    /\ UNCHANGED <<scene, build, iter, num_paths, iterationComplete, dev_intersections,
                   dev_image, gathered, writes, imageBefore, ref, kd, bf, isectOf>>

\* #if STREAMCOMP: thrust::partition with rayDeath, the new num_paths, and
\* iterationComplete = (num_paths == 0) || (depth == traceDepth)
StreamCompaction ==
    /\ pc = "endbounce"
    /\ build.STREAMCOMP
    /\ \E f \in PartitionResults(dev_paths, num_paths) :
        dev_paths' = Permute(dev_paths, num_paths, f)
    /\ num_paths' = PartitionPoint(dev_paths, num_paths)
    /\ iterationComplete' = ((num_paths' = 0) \/ (depth = scene.traceDepth))
    /\ prev' = Snapshot(dev_paths, num_paths)
    /\ last' = "compact"
    /\ pc' = IF iterationComplete' THEN "gather" ELSE "intersect"
    /\ UNCHANGED <<scene, build, iter, depth, dev_intersections, dev_image, gathered,
                   writes, imageBefore, rngUsed, ref, kd, bf, isectOf>>

\* #else: iterationComplete = (depth == traceDepth)
LoopTest ==
    /\ pc = "endbounce"
    /\ ~build.STREAMCOMP
    /\ iterationComplete' = (depth = scene.traceDepth)
    /\ last' = "looptest"
    /\ pc' = IF iterationComplete' THEN "gather" ELSE "intersect"
    /\ UNCHANGED <<scene, build, iter, depth, num_paths, dev_paths, dev_intersections,
                   dev_image, gathered, writes, imageBefore, prev, rngUsed, ref, kd, bf, isectOf>>

\* num_paths = dev_path_end - dev_paths, the count finalGather is launched with
FullPathCount(n) == PixelCount

LaunchFinalGather ==
    /\ pc = "gather"
    /\ num_paths' = FullPathCount(num_paths)
    /\ last' = "launch"
    /\ pc' = "gathering"
    /\ UNCHANGED <<scene, build, iter, depth, iterationComplete, dev_paths,
                   dev_intersections, dev_image, gathered, writes, imageBefore, prev,
                   rngUsed, ref, kd, bf, isectOf>>

\* finalGather adding at the thread's own array index
GatherSlotByIndex(iterationPath, index) == index

\* the image slot a finalGather thread adds to
GatherSlot(iterationPath, index) == iterationPath.pixelIndex

\* one thread of finalGather: image[iterationPath.pixelIndex] += iterationPath.color
FinalGatherThread(index) ==
    /\ pc = "gathering"
    /\ index < num_paths
    /\ index \notin gathered
    /\ LET slot == GatherSlot(dev_paths[index], index)
       IN /\ dev_image' = [dev_image EXCEPT ![slot] = Add(@, dev_paths[index].color)]
          /\ writes' = [writes EXCEPT ![slot] = @ + 1]
    /\ gathered' = gathered \cup {index}
    /\ last' = "gather"
    /\ UNCHANGED <<scene, build, iter, pc, depth, num_paths, iterationComplete, dev_paths,
                   dev_intersections, imageBefore, prev, rngUsed, ref, kd, bf, isectOf>>

\* the end of pathtrace, once every finalGather thread has run: sendImageToPBO
\* and the copy to the host read dev_image and change nothing of the device
Present ==
    /\ pc = "gathering"
    /\ gathered = {i \in Pixels : i < num_paths}
    /\ last' = "present"
    /\ pc' = "done"
    /\ UNCHANGED <<scene, build, iter, depth, num_paths, iterationComplete, dev_paths,
                   dev_intersections, dev_image, gathered, writes, imageBefore, prev,
                   rngUsed, ref, kd, bf, isectOf>>

\* the caller asks for one more sample
NextIteration ==
    /\ pc = "done"
    /\ ref = <<>>
    /\ iter < MaxIter
    /\ iter' = iter + 1
    /\ last' = "return"
    /\ pc' = "idle"
    /\ UNCHANGED <<scene, build, depth, num_paths, iterationComplete, dev_paths,
                   dev_intersections, dev_image, gathered, writes, imageBefore, prev,
                   rngUsed, ref, kd, bf, isectOf>>

\* what the call that just ended added to every pixel
Contribution == [p \in Pixels |-> Sub(dev_image[p], imageBefore[p])]

\* the first call is made again by a build with one switch toggled, from the
\* image the call started from; ref keeps what this build added
Rebuild ==
    /\ pc = "done"
    /\ iter = 1
    /\ ref = <<>>
    /\ ref' = <<[build |-> build, contribution |-> Contribution]>>
    /\ \E b \in Builds :
        /\ (b.MATSORT # build.MATSORT) # (b.STREAMCOMP # build.STREAMCOMP)
        /\ build' = b
    /\ dev_image' = imageBefore
    /\ last' = "rebuild"
    /\ pc' = "idle"
    /\ UNCHANGED <<scene, iter, depth, num_paths, iterationComplete, dev_paths,
                   dev_intersections, gathered, writes, imageBefore, prev, rngUsed,
                   kd, bf, isectOf>>

Next ==
    \/ GenerateRays
    \/ Intersect
    \/ SortByMaterial
    \/ Shade
    \/ StreamCompaction
    \/ LoopTest
    \/ LaunchFinalGather
    \/ \E index \in Pixels : FinalGatherThread(index)
    \/ Present
    \/ NextIteration
    \/ Rebuild

Spec == Init /\ [][Next]_vars

\* ------------------------------------------------------------------ claims

\* the path of pixel p in dev_paths
PathOf(p) == dev_paths[PositionOf(dev_paths, p)]

\* C1: finalGather runs over the full pixel-count array, whose pixelIndex
\* fields are pairwise distinct and cover every pixel whatever sorts and
\* compactions ran; no image slot is written twice in one call; every slot p
\* grows exactly once, by the final throughput of the path whose pixelIndex
\* is p.
C1_GatherOncePerPixel ==
    /\ last # "pathtraceInit" =>
        /\ \A p \in Pixels : \E i \in Pixels : dev_paths[i].pixelIndex = p
        /\ \A i, j \in Pixels :
            dev_paths[i].pixelIndex = dev_paths[j].pixelIndex => i = j
    /\ pc = "gathering" => num_paths = PixelCount
    /\ \A p \in Pixels : writes[p] <= 1
    /\ pc = "gathering" =>
        \A p \in Pixels :
            IF PositionOf(dev_paths, p) \in gathered
            THEN writes[p] = 1 /\ dev_image[p] = Add(imageBefore[p], PathOf(p).color)
            ELSE writes[p] = 0 /\ dev_image[p] = imageBefore[p]
    /\ pc = "done" =>
        \A p \in Pixels :
            writes[p] = 1 /\ dev_image[p] = Add(imageBefore[p], PathOf(p).color)

\* a call has ended whose paths were moved from their pixels' positions and
\* which added light to the image
C1_Witness ==
    /\ pc = "done"
    /\ build.STREAMCOMP
    /\ \E i \in Pixels : dev_paths[i].pixelIndex # i /\ dev_paths[i].color # Black
    /\ \A p \in Pixels : writes[p] = 1

\* C2: within one iteration no shade step increases a path's
\* remainingBounces, the counter is never negative, and a path that is no
\* longer live has it at exactly 0.
C2_BouncesNeverNegative ==
    /\ last = "shade" =>
        \A i \in Pixels :
            dev_paths[i].remainingBounces <= prev.paths[i].remainingBounces
    /\ last # "pathtraceInit" =>
        \A i \in Pixels :
            /\ dev_paths[i].remainingBounces >= 0
            /\ ~rayDeath(dev_paths[i]) => dev_paths[i].remainingBounces = 0

\* C3: after a stream compaction the active count has not grown, every path
\* of the surviving prefix has remainingBounces > 0 and is one of the paths
\* that were active, unchanged, and every path that left the active set had
\* remainingBounces = 0.
C3_CompactionKeepsLivePaths ==
    last = "compact" =>
        /\ num_paths <= prev.num_paths
        /\ \A i \in Pixels :
            i < num_paths =>
                /\ dev_paths[i].remainingBounces > 0
                /\ \E j \in Pixels : j < prev.num_paths /\ prev.paths[j] = dev_paths[i]
        /\ \A j \in Pixels :
            (j < prev.num_paths
                /\ ~\E i \in Pixels : i < num_paths /\ dev_paths[i] = prev.paths[j])
            => prev.paths[j].remainingBounces = 0

\* C4: the engine shadeMaterials seeds for a path is the one seeded from the
\* iteration, the path's originating pixel and the bounce depth, wherever
\* the path sits in the array.
C4_SeedFromPixel ==
    last = "shade" =>
        \A p \in Pixels :
            rngUsed[p] # NoEngine =>
                rngUsed[p] = makeSeededRandomEngine(iter, p, depth - 1)

\* C5: with a bounce budget of 0 a call of pathtrace leaves every pixel of
\* the image as it was.
C5_ZeroBudgetIsNoOp ==
    (pc = "done" /\ scene.traceDepth = 0) => dev_image = imageBefore

\* C6: the same call made with the material sort toggled adds the same
\* contribution to every pixel.
C6_SortDoesNotChangeImage ==
    (pc = "done" /\ ref # <<>> /\ ref[1].build.MATSORT # build.MATSORT)
        => Contribution = ref[1].contribution

\* C7: the same call made with stream compaction toggled adds the same
\* contribution to every pixel, and without compaction a path that is no
\* longer live is not changed by later shade steps.
C7_CompactionDoesNotChangeImage ==
    /\ (pc = "done" /\ ref # <<>> /\ ref[1].build.STREAMCOMP # build.STREAMCOMP)
        => Contribution = ref[1].contribution
    /\ (last = "shade" /\ ~build.STREAMCOMP) =>
        \A i \in Pixels :
            ~rayDeath(prev.paths[i]) => dev_paths[i] = prev.paths[i]

\* the record the intersector writes for the camera ray of pixel p
CameraHit(p) ==
    computeIntersectionsKD(scene, generateRayFromCamera(p, iter, scene.traceDepth).ray,
                           ZeroIntersection, -1)

\* every camera ray meets material m first
AllCameraRaysHit(m) ==
    \A p \in Pixels : CameraHit(p).t > 0 /\ CameraHit(p).materialId = m

\* C9: when every camera ray meets one emissive material (colour c,
\* emittance e > 0) and the budget is > 0, every path leaves its first shade
\* step terminated with throughput c * e, and the call adds exactly c * e to
\* every pixel, whatever the budget.
C9_DirectLight ==
    (last = "shade" \/ pc = "done") =>
        \A m \in DOMAIN scene.materials :
            (scene.materials[m].emittance > 0 /\ scene.traceDepth > 0
                /\ AllCameraRaysHit(m))
            => LET ce == Scale(scene.materials[m].color, scene.materials[m].emittance)
               IN /\ last = "shade" =>
                        \A i \in Pixels :
                            dev_paths[i].remainingBounces = 0 /\ dev_paths[i].color = ce
                  /\ pc = "done" => \A p \in Pixels : Contribution[p] = ce

\* the white light of emittance 5 fills the view, the budget is 2, and the
\* call has added (5, 5, 5) to every pixel of an image that held light already
C9_Witness ==
    /\ pc = "done"
    /\ scene.traceDepth = 2
    /\ AllCameraRaysHit(0)
    /\ iter = 2
    /\ \A p \in Pixels : Contribution[p] = Vec3(5, 5, 5) /\ dev_image[p] = Vec3(10, 10, 10)

\* C10: a live path that meets a non-emissive material flagged with a
\* texture-load error leaves that shade step with throughput magenta,
\* terminated, its ray as it was; the paths beyond the active count are not
\* touched.
C10_TextureErrorIsMagenta ==
    last = "shade" =>
        \A i \in Pixels :
            IF i < num_paths
            THEN (/\ prev.paths[i].remainingBounces # 0
                  /\ dev_intersections[i].t > 0
                  /\ scene.materials[dev_intersections[i].materialId].emittance = 0
                  /\ scene.materials[dev_intersections[i].materialId].textureOffset = -2)
                 => dev_paths[i] = [prev.paths[i] EXCEPT !.color = Magenta,
                                                         !.remainingBounces = 0]
            ELSE dev_paths[i] = prev.paths[i]

\* C11: the bounce loop of a call never runs more bounces than the budget
\* and goes round again only while paths are active and the depth is below
\* the budget; depth grows by one each round, so a loop that keeps within the
\* budget ends and reaches finalGather.
C11_LoopEndsWithinBudget ==
    /\ depth <= scene.traceDepth
    /\ (pc = "intersect" /\ last \in {"compact", "looptest"}) =>
        /\ depth < scene.traceDepth
        /\ build.STREAMCOMP => num_paths > 0

\* C13: when shadeMaterials is about to run, the intersection record at
\* every active array position was written in this bounce of this iteration
\* for the path that now occupies the position, and is what the intersector
\* computes for that path's ray over a cleared record (a hit, or t = -1 for
\* no hit), also after the material sort has moved paths and records; the
\* positions beyond the active count hold the cleared record.
C13_ShaderReadsFreshRecords ==
    pc = "shade" =>
        \A i \in Pixels :
            IF i < num_paths
            THEN /\ isectOf[i] = [pixelIndex |-> dev_paths[i].pixelIndex,
                                  iter |-> iter, depth |-> depth]
                 /\ \E t0 \in UninitT :
                        dev_intersections[i] =
                            computeIntersectionsKD(scene, dev_paths[i].ray,
                                                   ZeroIntersection, t0)
            ELSE /\ isectOf[i] = NoRecord
                 /\ dev_intersections[i] = ZeroIntersection

\* a later bounce in which the material sort has just moved the paths and
\* one of the active records is a hit
C13_Witness ==
    /\ pc = "shade"
    /\ last = "sort"
    /\ depth > 0
    /\ num_paths > 1
    /\ dev_paths # prev.paths
    /\ \E i \in Pixels : i < num_paths /\ dev_intersections[i].t > 0

\* ------------------------------------------------------------------ one ray, both intersectors

NumTestPrims == 2

GeomTypes == {CUBE, SPHERE, TRIANGLE, DIAMOND, MANDELBULB}

\* a sequence of nodes as an array indexed from 0
AsArray(q) == [i \in 0 .. (Len(q) - 1) |-> q[i + 1]]

\* the flattened trees over primitives lo .. hi-1 whose root sits at index
\* base: a leaf, or an interior node followed by its first subtree and then
\* its second, every leaf holding at least one primitive
RECURSIVE FlatTrees(_, _, _)
FlatTrees(lo, hi, base) ==
    {<<Leaf(lo, hi - lo)>>} \cup
    UNION {UNION {{<<Interior(base + 1 + Len(l))>> \o l \o r :
                      r \in FlatTrees(mid, hi, base + 1 + Len(l))} :
                  l \in FlatTrees(lo, mid, base + 1)} :
           mid \in (lo + 1) .. (hi - 1)}

\* bounds that enclose their primitives: a ray that meets a primitive below
\* a node meets the node's bounds; other rays may meet them or not
EnclosingBounds(tree, primT) ==
    LET tight == TightBounds(tree, primT)
    IN {b \in [DOMAIN primT -> [DOMAIN tree -> BOOLEAN]] :
           \A r \in DOMAIN primT : \A n \in DOMAIN tree : tight[r][n] => b[r][n]}

\* the scenes of n primitives for one ray class: any types, any test
\* results among miss, t = 1 and t = 2, any flattened tree, any enclosing bounds
TestScenes(n) ==
    UNION {UNION {
        {[traceDepth |-> 0,
          geoms |-> [g \in 0 .. (n - 1) |-> [type |-> types[g], materialid |-> g]],
          geoms_size |-> n,
          kdtree |-> AsArray(tree),
          materials |-> SceneMaterials,
          primT |-> (0 :> ts),
          boundsHit |-> b] :
            types \in [0 .. (n - 1) -> GeomTypes],
            b \in EnclosingBounds(AsArray(tree), (0 :> ts))} :
        tree \in FlatTrees(0, n, 0)} :
        ts \in [0 .. (n - 1) -> {-1, 1, 2}]}

\* one path with ray class 0, and the locals of its computeIntersectionsKD thread
IsectInit ==
    /\ scene \in TestScenes(NumTestPrims)
    /\ build = [MATSORT |-> FALSE, STREAMCOMP |-> TRUE]
    /\ iter = 1
    /\ pc = "kd"
    /\ depth = 0
    /\ num_paths = 1
    /\ iterationComplete = FALSE
    /\ dev_paths = [i \in Pixels |-> generateRayFromCamera(i, 1, 0)]
    /\ dev_intersections = [i \in Pixels |-> ZeroIntersection]
    /\ dev_image = [p \in Pixels |-> Black]
    /\ gathered = {}
    /\ writes = [p \in Pixels |-> 0]
    /\ imageBefore = [p \in Pixels |-> Black]
    /\ prev = Snapshot(dev_paths, 1)
    /\ last = "generate"
    /\ rngUsed = [p \in Pixels |-> NoEngine]
    /\ ref = <<>>
    /\ kd \in {KDStart(t0) : t0 \in UninitT}
    /\ bf = ZeroIntersection
    /\ isectOf = [i \in Pixels |-> NoRecord]

\* one turn of the while (true) of computeIntersectionsKD for path 0
KDLoop ==
    /\ pc = "kd"
    /\ ~kd.done
    /\ kd' = KDStep(scene, dev_paths[0].ray, kd)
    /\ UNCHANGED <<scene, build, iter, pc, depth, num_paths, iterationComplete, dev_paths,
                   dev_intersections, dev_image, gathered, writes, imageBefore, prev,
                   last, rngUsed, ref, bf, isectOf>>

\* after the loop: the thread writes intersections[path_index]
KDWrite ==
    /\ pc = "kd"
    /\ kd.done
    /\ dev_intersections' =
        [dev_intersections EXCEPT ![0] = WriteIntersection(scene, ZeroIntersection, kd)]
    /\ last' = "intersect"
    /\ pc' = "bf"
    /\ UNCHANGED <<scene, build, iter, depth, num_paths, iterationComplete, dev_paths,
                   dev_image, gathered, writes, imageBefore, prev, rngUsed, ref, kd, bf, isectOf>>

\* the thread of computeIntersections for the same path, into its own buffer
BruteForce ==
    /\ pc = "bf"
    /\ \E t0 \in UninitT :
        bf' = computeIntersections(scene, dev_paths[0].ray, ZeroIntersection, t0)
    /\ last' = "bruteforce"
    /\ pc' = "compared"
    /\ UNCHANGED <<scene, build, iter, depth, num_paths, iterationComplete, dev_paths,
                   dev_intersections, dev_image, gathered, writes, imageBefore, prev,
                   rngUsed, ref, kd, isectOf>>

IsectNext ==
    \/ KDLoop
    \/ KDWrite
    \/ BruteForce

SpecIsect == IsectInit /\ [][IsectNext]_vars

\* C8: for every scene and ray the accelerated and the brute-force
\* intersector report the same outcome: no hit from both, or the same
\* nearest positive t and the same material id, whatever the primitive types.
C8_IntersectorsAgree ==
    pc = "compared" =>
        \/ dev_intersections[0].t <= 0 /\ bf.t <= 0
        \/ /\ dev_intersections[0].t > 0
           /\ bf.t = dev_intersections[0].t
           /\ bf.materialId = dev_intersections[0].materialId

\* ------------------------------------------------------------------ the traversal stack

\* int nodesToVisit[64]
StackCapacity == 64

Max(a, b) == IF a > b THEN a ELSE b

\* a leaf without primitives: its count is 0 and the field the traversal
\* reads as secondChildOffset holds 0 or shares storage with the offset
EmptyLeaf(offset, second) ==
    [nPrimitives |-> 0, primitivesOffset |-> offset, secondChildOffset |-> second]

\* the flattened trees of depth at most d over primitives lo .. hi-1 whose
\* root sits at index base, with their depth; a leaf holds any number of
\* primitives, none included
RECURSIVE AnyCountTrees(_, _, _, _)
AnyCountTrees(lo, hi, base, d) ==
    (IF hi > lo
     THEN {[nodes |-> <<Leaf(lo, hi - lo)>>, depth |-> 0]}
     ELSE {[nodes |-> <<EmptyLeaf(lo, second)>>, depth |-> 0] : second \in {0, lo}})
    \cup
    (IF d = 0
     THEN {}
     ELSE UNION {UNION {
              {[nodes |-> <<Interior(base + 1 + Len(l.nodes))>> \o l.nodes \o r.nodes,
                depth |-> 1 + Max(l.depth, r.depth)] :
                  r \in AnyCountTrees(mid, hi, base + 1 + Len(l.nodes), d - 1)} :
              l \in AnyCountTrees(lo, mid, base + 1, d - 1)} :
              mid \in lo .. hi})

\* the scenes of n boxes for one ray class that meets every box at t = 1:
\* any flattened tree of depth at most n, the ray meeting any of the bounds
TraverseScenes(n) ==
    UNION {
        {[traceDepth |-> 0,
          geoms |-> [g \in 0 .. (n - 1) |-> [type |-> CUBE, materialid |-> g]],
          geoms_size |-> n,
          kdtree |-> AsArray(tree.nodes),
          treeDepth |-> tree.depth,
          materials |-> SceneMaterials,
          primT |-> (0 :> [g \in 0 .. (n - 1) |-> 1]),
          boundsHit |-> (0 :> b)] :
            b \in [0 .. (Len(tree.nodes) - 1) -> BOOLEAN]} :
        tree \in AnyCountTrees(0, n, 0, n)}

\* what a read of kdtree past the end of the array can return: memory that
\* looks like an interior node or like a leaf of one primitive
WildNodes(sc) ==
    {Interior(second) : second \in DOMAIN sc.kdtree} \cup
    {Leaf(offset, 1) : offset \in DOMAIN sc.geoms}

\* LinearKDNode node = kdtree[currentNodeIndex] and the bounds test on it:
\* the node of the tree, or anything when the index is outside the array
NodeRead(sc, ray, index) ==
    IF index \in DOMAIN sc.kdtree
    THEN {[node |-> sc.kdtree[index], boundsT |-> sc.boundsHit[ray][index]]}
    ELSE [node : WildNodes(sc), boundsT : BOOLEAN]

\* one path with ray class 0 over any flattened tree, and the locals of its
\* computeIntersectionsKD thread
TraverseInit ==
    /\ scene \in TraverseScenes(NumTestPrims)
    /\ build = [MATSORT |-> FALSE, STREAMCOMP |-> TRUE]
    /\ iter = 1
    /\ pc = "kd"
    /\ depth = 0
    /\ num_paths = 1
    /\ iterationComplete = FALSE
    /\ dev_paths = [i \in Pixels |-> generateRayFromCamera(i, 1, 0)]
    /\ dev_intersections = [i \in Pixels |-> ZeroIntersection]
    /\ dev_image = [p \in Pixels |-> Black]
    /\ gathered = {}
    /\ writes = [p \in Pixels |-> 0]
    /\ imageBefore = [p \in Pixels |-> Black]
    /\ prev = Snapshot(dev_paths, 1)
    /\ last = "generate"
    /\ rngUsed = [p \in Pixels |-> NoEngine]
    /\ ref = <<>>
    /\ kd \in {KDStart(t0) : t0 \in UninitT}
    /\ bf = ZeroIntersection
    /\ isectOf = [i \in Pixels |-> NoRecord]

\* one turn of the while (true) of computeIntersectionsKD for path 0, as
\* long as the stack has room; the turns are followed until the stack is
\* two entries deeper than the tree
KDTurn ==
    /\ pc = "kd"
    /\ ~kd.done
    /\ kd.toVisitOffset < StackCapacity
    /\ kd.toVisitOffset <= scene.treeDepth + 1
    /\ \E rd \in NodeRead(scene, dev_paths[0].ray, kd.currentNodeIndex) :
        kd' = KDVisit(scene, dev_paths[0].ray, kd, rd.node, rd.boundsT)
    /\ UNCHANGED <<scene, build, iter, pc, depth, num_paths, iterationComplete, dev_paths,
                   dev_intersections, dev_image, gathered, writes, imageBefore, prev,
                   last, rngUsed, ref, bf, isectOf>>

TraverseNext ==
    \/ KDTurn
    \/ KDWrite

SpecTraverse == TraverseInit /\ [][TraverseNext]_vars

\* C12: for every flattened tree, leaves of any count included, and every
\* ray, the traversal keeps toVisitOffset within [0, tree depth], holds on
\* its stack only indices of nodes of the tree that it pushed, and reads
\* only nodes of the tree.
C12_TraversalStaysInTree ==
    pc = "kd" =>
        /\ kd.toVisitOffset \in 0 .. scene.treeDepth
        /\ Len(kd.nodesToVisit) = kd.toVisitOffset
        /\ \A j \in 1 .. Len(kd.nodesToVisit) : kd.nodesToVisit[j] \in DOMAIN scene.kdtree
        /\ ~kd.done => kd.currentNodeIndex \in DOMAIN scene.kdtree

====
